---- MODULE Spec2Model ----
(***************************************************************************)
(* A model of the OAuth2 / OData extraction pipeline of main.py: the       *)
(* request planner (build_request_urls), the paginated fetcher with token  *)
(* refresh (fetch_data_with_pagination), the dataset store (dataframes),   *)
(* the transformation engine (apply_transformations and its helpers) and   *)
(* the output formatter (format_output_columns), driven by main.           *)
(*                                                                         *)
(* pandas objects are modelled by value:                                   *)
(*   - a cell is a record [kind, text]: kind is the Python type of the     *)
(*     value ("int", "float", "str", "none" for None, "nan" for the float  *)
(*     NaN) and text is what str() of the value gives;                     *)
(*   - a table is [cols, rows]: the column labels in order (labels may     *)
(*     repeat, as pandas allows) and the rows, each a tuple of cells;      *)
(*   - a DataFrame object is a slot of heap; names such as result_df hold  *)
(*     slot numbers, so that in-place assignment (df[column] = ...) and    *)
(*     copying (df.copy()) are told apart.                                 *)
(* astype(str) follows the pandas 1.x / 2.x behaviour the code is written  *)
(* for (clean_join_key replaces the strings "nan" and "None" it produces). *)
(***************************************************************************)
EXTENDS Integers, Sequences, FiniteSets, TLC

VARIABLES
    pc,               \* position of main
    ep,               \* index in ENDPOINT_CONFIGS of the endpoint being fetched
    gen_i,            \* build_request_urls: number of URLs yielded for ep
    url,              \* fetch_data_with_pagination: the URL of the loop, or NoUrl
    attempt,          \* requests.get calls made for url in its loop iteration
    last_status,      \* status code of the last response of requests.get
    token_seq,        \* tokens handed out by the token endpoint so far
    headers_token,    \* the token in headers["Authorization"]
    sent_token,       \* the token the last requests.get carried
    fetch_data,       \* all_data of fetch_data_with_pagination
    all_data,         \* all_data of main
    heap,             \* the DataFrame objects, by slot
    dataframes,       \* the module-level dict: store key -> slot (0: no entry)
    final_df,         \* main's final_df (slot, 0: unbound)
    result_df,        \* apply_transformations' result_df (slot, 0: unbound)
    output_df,        \* main's output_df (slot, 0: unbound)
    operations,       \* the operation list given to apply_transformations
    op_k,             \* operations already iterated over
    column_mappings,  \* the mapping list given to format_output_columns
    astype_str_keeps_na,  \* the installed pandas: does astype(str) keep nulls
    hist              \* history: calls and writes observed so far

vars == <<pc, ep, gen_i, url, attempt, last_status, token_seq, headers_token,
          sent_token, fetch_data, all_data, heap, dataframes, final_df,
          result_df, output_df, operations, op_k, column_mappings,
          astype_str_keeps_na, hist>>

-----------------------------------------------------------------------------
(* Bounds of the model *)

\* pages the server serves for one descriptor before it stops sending nextLink
MaxPages == 2
\* rows of the tables given to the transformation engine and the formatter
MaxRows == 3
\* length of the operation lists given to apply_transformations
MaxOps == 2
\* rows of the two tables given to a join
MaxKeys == 2
\* distinct driving values given to the planner
MaxIds == 21

\* chunk_size of build_request_urls
ChunkSize == 10

-----------------------------------------------------------------------------
(* Cells *)

I(t) == [kind |-> "int", text |-> t]
F(t) == [kind |-> "float", text |-> t]
S(t) == [kind |-> "str", text |-> t]
None == [kind |-> "none", text |-> "None"]
NaN == [kind |-> "nan", text |-> "nan"]

\* pd.isna
IsNull(v) == v.kind \in {"none", "nan"}

\* str(n) for the integers of the model
IntText == [n \in -1..30 |-> CASE n = -1 -> "-1" [] n = 0 -> "0" [] n = 1 -> "1"
    [] n = 2 -> "2" [] n = 3 -> "3" [] n = 4 -> "4" [] n = 5 -> "5" [] n = 6 -> "6"
    [] n = 7 -> "7" [] n = 8 -> "8" [] n = 9 -> "9" [] n = 10 -> "10"
    [] n = 11 -> "11" [] n = 12 -> "12" [] n = 13 -> "13" [] n = 14 -> "14"
    [] n = 15 -> "15" [] n = 16 -> "16" [] n = 17 -> "17" [] n = 18 -> "18"
    [] n = 19 -> "19" [] n = 20 -> "20" [] n = 21 -> "21" [] n = 22 -> "22"
    [] n = 23 -> "23" [] n = 24 -> "24" [] n = 25 -> "25" [] n = 26 -> "26"
    [] n = 27 -> "27" [] n = 28 -> "28" [] n = 29 -> "29" [] n = 30 -> "30"]

\* str(float(n)) for the integers of the model
FloatText == [n \in -1..30 |-> CASE n = -1 -> "-1.0" [] n = 0 -> "0.0" [] n = 1 -> "1.0"
    [] n = 2 -> "2.0" [] n = 3 -> "3.0" [] n = 4 -> "4.0" [] n = 5 -> "5.0"
    [] n = 6 -> "6.0" [] n = 7 -> "7.0" [] n = 8 -> "8.0" [] n = 9 -> "9.0"
    [] n = 10 -> "10.0" [] n = 11 -> "11.0" [] n = 12 -> "12.0" [] n = 13 -> "13.0"
    [] n = 14 -> "14.0" [] n = 15 -> "15.0" [] n = 16 -> "16.0" [] n = 17 -> "17.0"
    [] n = 18 -> "18.0" [] n = 19 -> "19.0" [] n = 20 -> "20.0" [] n = 21 -> "21.0"
    [] n = 22 -> "22.0" [] n = 23 -> "23.0" [] n = 24 -> "24.0" [] n = 25 -> "25.0"
    [] n = 26 -> "26.0" [] n = 27 -> "27.0" [] n = 28 -> "28.0" [] n = 29 -> "29.0"
    [] n = 30 -> "30.0"]

\* the numeric literals of the model: text of an int -> text of the same float
FloatOfInt == [t \in {IntText[n] : n \in -1..30} |->
    FloatText[CHOOSE n \in -1..30 : IntText[n] = t]]
\* text of a float -> text of int(float) (truncation)
IntOfFloat == [t \in {FloatText[n] : n \in -1..30} |->
    IntText[CHOOSE n \in -1..30 : FloatText[n] = t]] @@ ("7.5" :> "7")

\* Series.astype(str), per value: str(value). No version of pandas is pinned:
\* before 3.0 the result is an object column where None is "None" and NaN is
\* "nan"; from 3.0 on it is a str column where a null stays null (NaN)
AsTypeStr(v) == IF astype_str_keeps_na /\ IsNull(v) THEN NaN ELSE S(v.text)

\* Series.fillna(value), per value
FillNa(v, value) == IF IsNull(v) THEN value ELSE v

\* Series.replace(["nan", "<NA>", "None"], ""), per value: whole-value match
ReplaceNullMarkers(v) ==
    IF v.kind = "str" /\ v.text \in {"nan", "<NA>", "None"} THEN S("") ELSE v

\* pd.to_numeric(errors="coerce"), per value: numbers stay, numeric strings are
\* parsed ("inf" is the text of a float), everything else (None, text)
\* becomes NaN
ToNumericValue(v) ==
    CASE v.kind \in {"int", "float"} -> v
      [] v.kind = "str" /\ v.text \in DOMAIN FloatOfInt -> I(v.text)
      [] v.kind = "str" /\ v.text \in DOMAIN IntOfFloat -> F(v.text)
      [] v.kind = "str" /\ v.text = "inf" -> F("inf")
      [] OTHER -> NaN

\* a numeric column holds one dtype: int64 only when every value is an int,
\* float64 otherwise (the ints are widened and None becomes NaN)
Widen(v) ==
    CASE v.kind = "int" -> F(FloatOfInt[v.text])
      [] v.kind = "none" -> NaN
      [] OTHER -> v

NumericColumn(vals) ==
    IF \A i \in 1..Len(vals) : vals[i].kind = "int"
    THEN vals
    ELSE [i \in 1..Len(vals) |-> Widen(vals[i])]

\* pd.to_numeric(series, errors="coerce")
ToNumeric(vals) == NumericColumn([i \in 1..Len(vals) |-> ToNumericValue(vals[i])])

\* Series.astype(int) of a numeric column without NaN
AsTypeInt(v) == IF v.kind = "float" THEN I(IntOfFloat[v.text]) ELSE v

-----------------------------------------------------------------------------
(* Tables *)

EmptyTable == [cols |-> <<>>, rows |-> <<>>]

\* positions of the columns labelled c
ColPos(t, c) == {i \in 1..Len(t.cols) : t.cols[i] = c}

\* `c in df.columns`
HasCol(t, c) == ColPos(t, c) # {}

FirstPos(t, c) == CHOOSE i \in ColPos(t, c) : \A j \in ColPos(t, c) : i <= j

\* df[c] for a label that names one column: its values, top to bottom
Column(t, c) == [r \in 1..Len(t.rows) |-> t.rows[r][FirstPos(t, c)]]

\* df[c] = vals, for every column labelled c
SetColumn(t, c, vals) ==
    [t EXCEPT !.rows = [r \in 1..Len(t.rows) |->
        [i \in 1..Len(t.cols) |-> IF t.cols[i] = c THEN vals[r] ELSE t.rows[r][i]]]]

\* the value of field c of a JSON record (a tuple of <<name, value>> pairs),
\* NaN when the record has no such field
Field(rec, c) ==
    IF \E i \in 1..Len(rec) : rec[i][1] = c
    THEN rec[CHOOSE i \in 1..Len(rec) : rec[i][1] = c][2]
    ELSE NaN

\* the dtype pandas infers for a column built from Python values: a column of
\* numbers with a missing value or a float is float64
InferColumn(vals) ==
    IF /\ \A i \in 1..Len(vals) : vals[i].kind \in {"int", "float", "none", "nan"}
       /\ \E i \in 1..Len(vals) : vals[i].kind \in {"int", "float"}
    THEN NumericColumn(vals)
    ELSE vals

\* pd.DataFrame(all_data).reindex(columns=expected_cols)
MakeDataset(records, expected_cols) ==
    LET colvals(c) == InferColumn([r \in 1..Len(records) |-> Field(records[r], c)])
    IN  [cols |-> expected_cols,
         rows |-> [r \in 1..Len(records) |->
                    [i \in 1..Len(expected_cols) |-> colvals(expected_cols[i])[r]]]]

-----------------------------------------------------------------------------
(* Transformation engine: the helpers of apply_transformations *)

\* a rename that pops the column and adds it back as the last one
RenameMoveLast(t, old_col, new_col) ==
    LET keep == SelectSeq([i \in 1..Len(t.cols) |-> i], LAMBDA i : t.cols[i] # old_col)
        move == SelectSeq([i \in 1..Len(t.cols) |-> i], LAMBDA i : t.cols[i] = old_col)
    IN  [cols |-> [n \in 1..Len(keep) |-> t.cols[keep[n]]] \o [n \in 1..Len(move) |-> new_col],
         rows |-> [r \in 1..Len(t.rows) |->
                     [n \in 1..Len(keep) |-> t.rows[r][keep[n]]]
                     \o [n \in 1..Len(move) |-> t.rows[r][move[n]]]]]

\* DataFrame.rename(columns={old_col: new_col}): every column labelled old_col
\* is relabelled, a label the table lacks is ignored, values are untouched
Rename(t, old_col, new_col) ==
    [t EXCEPT !.cols = [i \in 1..Len(t.cols) |->
        IF t.cols[i] = old_col THEN new_col ELSE t.cols[i]]]

\* str.lower() of the dtype names of the model
Lower(dtype) ==
    CASE dtype = "String" -> "string"
      [] dtype = "INT64" -> "int64"
      [] OTHER -> dtype

\* the values safe_cast_column assigns to the column, by branch
CastValues(vals, dtype) ==
    LET dtype_lower == Lower(dtype)
    IN  CASE dtype_lower = "string" ->
               [r \in 1..Len(vals) |-> FillNa(AsTypeStr(vals[r]), S(""))]
          [] dtype_lower \in {"int64", "int"} ->
               LET num == ToNumeric(vals)
                   filled == NumericColumn([r \in 1..Len(vals) |-> FillNa(num[r], I("-1"))])
               IN  [r \in 1..Len(vals) |-> AsTypeInt(filled[r])]
          [] dtype_lower \in {"float64", "float"} ->
               LET num == ToNumeric(vals)
               IN  NumericColumn([r \in 1..Len(vals) |-> FillNa(num[r], F("0.0"))])
          [] OTHER ->
               [r \in 1..Len(vals) |-> AsTypeStr(vals[r])]

\* pd.to_numeric raises TypeError when df[column] is a DataFrame, which is what
\* a label shared by several columns selects; astype(int) raises on a value
\* that is not finite, which fillna(-1) leaves in place
CastRaises(t, column, dtype) ==
    \/ /\ Cardinality(ColPos(t, column)) > 1
       /\ Lower(dtype) \in {"int64", "int", "float64", "float"}
    \/ /\ Cardinality(ColPos(t, column)) = 1
       /\ Lower(dtype) \in {"int64", "int"}
       /\ \E r \in 1..Len(t.rows) : ToNumericValue(Column(t, column)[r]) = F("inf")

\* safe_cast_column: the table after df[column] = ...
SafeCastColumn(t, column, dtype) ==
    IF ~HasCol(t, column)
    THEN t
    ELSE IF Cardinality(ColPos(t, column)) > 1
         THEN [t EXCEPT !.rows = [r \in 1..Len(t.rows) |->
                 [i \in 1..Len(t.cols) |->
                    IF t.cols[i] # column THEN t.rows[r][i]
                    ELSE IF Lower(dtype) = "string"
                         THEN FillNa(AsTypeStr(t.rows[r][i]), S(""))
                         ELSE AsTypeStr(t.rows[r][i])]]]
         ELSE SetColumn(t, column, CastValues(Column(t, column), dtype))

\* a key cleaning without the replace of the null markers
CleanKeyValueNoMarkers(v) == FillNa(AsTypeStr(v), S(""))

\* clean_join_key, per value
CleanKeyValue(v) == FillNa(ReplaceNullMarkers(AsTypeStr(v)), S(""))

\* clean_join_key: the table after df[key_column] = ...
CleanJoinKey(t, key_column) ==
    IF ~HasCol(t, key_column)
    THEN t
    ELSE [t EXCEPT !.rows = [r \in 1..Len(t.rows) |->
            [i \in 1..Len(t.cols) |->
               IF t.cols[i] = key_column THEN CleanKeyValue(t.rows[r][i]) ELSE t.rows[r][i]]]]

\* the suffixed label pandas gives a column both sides of a merge hold
SuffixX == ("status" :> "status_x") @@ ("a" :> "a_x") @@ ("b" :> "b_x") @@
    ("c" :> "c_x") @@ ("user_id" :> "user_id_x") @@ ("row" :> "row_x")
SuffixY == ("status" :> "status_y") @@ ("a" :> "a_y") @@ ("b" :> "b_y") @@
    ("c" :> "c_y") @@ ("user_id" :> "user_id_y") @@ ("row" :> "row_y")

\* the rows of the right table whose key equals k, in the right table's order
RECURSIVE MatchesFrom(_, _, _)
MatchesFrom(k, rkeys, j) ==
    IF j > Len(rkeys)
    THEN <<>>
    ELSE (IF rkeys[j] = k THEN <<j>> ELSE <<>>) \o MatchesFrom(k, rkeys, j + 1)

\* how="left": for each left row in order, one pair per matching right row, and
\* the pair <<i, 0>> when no right row matches
RECURSIVE MergePairsFrom(_, _, _)
MergePairsFrom(lkeys, rkeys, i) ==
    IF i > Len(lkeys)
    THEN <<>>
    ELSE LET m == MatchesFrom(lkeys[i], rkeys, 1)
         IN  (IF m = <<>> THEN << <<i, 0>> >> ELSE [n \in 1..Len(m) |-> <<i, m[n]>>])
             \o MergePairsFrom(lkeys, rkeys, i + 1)

MergePairs(lkeys, rkeys) == MergePairsFrom(lkeys, rkeys, 1)

\* the labels both sides of a merge hold, the shared key apart
Overlap(left_df, right_df, left_key, right_key) ==
    {c \in {left_df.cols[i] : i \in 1..Len(left_df.cols)} :
        /\ HasCol(right_df, c)
        /\ ~(left_key = right_key /\ c = left_key)}

\* DataFrame.merge raises when a key is no column or names several columns,
\* and when a suffixed label is one the result already holds
MergeRaises(left_df, right_df, left_key, right_key) ==
    \/ Cardinality(ColPos(left_df, left_key)) # 1
    \/ Cardinality(ColPos(right_df, right_key)) # 1
    \/ \E c \in Overlap(left_df, right_df, left_key, right_key) :
          \/ HasCol(left_df, SuffixX[c]) \/ HasCol(right_df, SuffixX[c])
          \/ HasCol(left_df, SuffixY[c]) \/ HasCol(right_df, SuffixY[c])

\* left_df.merge(right_df, left_on=left_key, right_on=right_key, how="left")
Merge(left_df, right_df, left_key, right_key) ==
    LET pairs == MergePairs(Column(left_df, left_key), Column(right_df, right_key))
        rpos == SelectSeq([i \in 1..Len(right_df.cols) |-> i],
                          LAMBDA i : ~(left_key = right_key /\ right_df.cols[i] = right_key))
        both == Overlap(left_df, right_df, left_key, right_key)
        lcols == [i \in 1..Len(left_df.cols) |->
                    IF left_df.cols[i] \in both THEN SuffixX[left_df.cols[i]]
                    ELSE left_df.cols[i]]
        rcols == [n \in 1..Len(rpos) |->
                    IF right_df.cols[rpos[n]] \in both THEN SuffixY[right_df.cols[rpos[n]]]
                    ELSE right_df.cols[rpos[n]]]
        rcell(p, n) == IF p[2] = 0 THEN NaN ELSE right_df.rows[p[2]][rpos[n]]
        rcol(n) == InferColumn([q \in 1..Len(pairs) |-> rcell(pairs[q], n)])
    IN  [cols |-> lcols \o rcols,
         rows |-> [q \in 1..Len(pairs) |->
                     left_df.rows[pairs[q][1]] \o [n \in 1..Len(rpos) |-> rcol(n)[q]]]]

\* `old in df.columns` filter of format_output_columns
MappedPairs(t, mappings) == SelectSeq(mappings, LAMBDA m : HasCol(t, m[1]))

\* df[old].rename(new) raises TypeError when df[old] is a DataFrame
FormatRaises(t, mappings) ==
    \E n \in 1..Len(mappings) : Cardinality(ColPos(t, mappings[n][1])) > 1

\* format_output_columns: pd.DataFrame(series_list).T; an empty series_list
\* gives the empty frame, which has no rows and no columns
FormatOutputColumns(t, mappings) ==
    LET kept == MappedPairs(t, mappings)
    IN  IF kept = <<>>
        THEN EmptyTable
        ELSE [cols |-> [n \in 1..Len(kept) |-> kept[n][2]],
              rows |-> [r \in 1..Len(t.rows) |->
                          [n \in 1..Len(kept) |-> t.rows[r][FirstPos(t, kept[n][1])]]]]

-----------------------------------------------------------------------------
(* Configuration of main.py *)

ENDPOINT_CONFIGS == <<
    [name |-> "users",
     select |-> <<"id", "username", "email", "created_date", "status">>,
     filter |-> "status eq 'active'", key_filter |-> "",
     has_driving |-> FALSE, driving_view_col_name |-> ""],
    [name |-> "orders",
     select |-> <<"order_id", "user_id", "total_amount", "order_date", "status">>,
     filter |-> "", key_filter |-> "user_id",
     has_driving |-> TRUE, driving_view_col_name |-> "id"],
    [name |-> "products",
     select |-> <<"product_id", "name", "category", "price", "in_stock">>,
     filter |-> "", key_filter |-> "",
     has_driving |-> FALSE, driving_view_col_name |-> ""] >>

JOIN_OPERATIONS == <<
    <<"RENAME", "id", "user_id">>,
    <<"CAST", "user_id", "string">>,
    <<"JOIN", "df_orders", "user_id", "user_id">>,
    <<"CAST", "total_amount", "float64">> >>

COLUMN_MAPPINGS == <<
    <<"user_id", "User ID">>,
    <<"username", "Customer Name">>,
    <<"email", "Email Address">>,
    <<"order_id", "Order Number">>,
    <<"total_amount", "Order Total">>,
    <<"order_date", "Purchase Date">>,
    <<"status", "Order Status">> >>

\* f"df_{endpoint}"
StoreKey(name) ==
    CASE name = "users" -> "df_users"
      [] name = "orders" -> "df_orders"
      [] name = "products" -> "df_products"

StoreKeys == {"df_users", "df_orders", "df_products"}

-----------------------------------------------------------------------------
(* Request planner: build_request_urls *)

NoUrl == [endpoint |-> "", key_filter |-> "", vals |-> <<>>, extra_filter |-> "",
          select |-> <<>>, page |-> 0]

\* Series.dropna()
DropNa(vals) == SelectSeq(vals, LAMBDA v : ~IsNull(v))

\* Series.unique(): the distinct values in the order they first appear
RECURSIVE Unique(_)
Unique(vals) ==
    IF vals = <<>>
    THEN <<>>
    ELSE LET init == Unique(SubSeq(vals, 1, Len(vals) - 1))
             last == vals[Len(vals)]
         IN  IF \E i \in 1..Len(init) : init[i] = last THEN init ELSE Append(init, last)

\* dataframes["df_users"][driving_col].dropna().astype(str).unique().tolist()
IdList(driving_df, driving_col) ==
    LET kept == DropNa(Column(driving_df, driving_col))
        strs == [i \in 1..Len(kept) |-> AsTypeStr(kept[i])]
        uniq == Unique(strs)
    IN  [i \in 1..Len(uniq) |-> uniq[i].text]

Min(a, b) == IF a <= b THEN a ELSE b

\* a slice that stops one value early
ChunkShort(id_list, i) == SubSeq(id_list, i + 1, Min(i + ChunkSize - 1, Len(id_list)))

\* id_list[i:i + chunk_size]
Chunk(id_list, i) == SubSeq(id_list, i + 1, Min(i + ChunkSize, Len(id_list)))

\* the branch build_request_urls takes
IsKeyed(config) == config.key_filter # "" /\ config.has_driving

\* whether the generator yields once more after `yielded` URLs
HasNextUrl(config, driving_df, yielded) ==
    IF IsKeyed(config)
    THEN yielded * ChunkSize < Len(IdList(driving_df, config.driving_view_col_name))
    ELSE yielded = 0

\* the URL the generator yields after `yielded` URLs
NextUrl(config, driving_df, yielded) ==
    IF IsKeyed(config)
    THEN [endpoint |-> config.name, key_filter |-> config.key_filter,
          vals |-> Chunk(IdList(driving_df, config.driving_view_col_name),
                         yielded * ChunkSize),
          extra_filter |-> config.filter, select |-> config.select, page |-> 1]
    ELSE [endpoint |-> config.name, key_filter |-> "", vals |-> <<>>,
          extra_filter |-> config.filter, select |-> config.select, page |-> 1]

-----------------------------------------------------------------------------
(* The resource server and the token endpoint *)

\* status codes the resource server answers with
Statuses == {200, 401, 500}

\* the records the server may hold, by endpoint
Records(name) ==
    CASE name = "users" ->
           { << <<"id", I("1")>>, <<"username", S("alice")>>, <<"status", S("active")>> >>,
             << <<"id", None>>, <<"username", S("bob")>> >> }
      [] name = "orders" ->
           { << <<"order_id", I("7")>>, <<"user_id", I("1")>>, <<"total_amount", S("7.5")>>,
                <<"order_date", S("2024-01-05T10:30:00Z")>>, <<"status", I("1")>> >>,
             << <<"order_id", I("3")>>, <<"user_id", I("2")>>, <<"total_amount", S("abc")>> >> }
      [] name = "products" ->
           { << <<"product_id", I("2")>>, <<"name", S("pen")>> >> }

\* the "value" list a page may carry: no record, or one
Pages(name) == {<<>>} \cup {<<rec>> : rec \in Records(name)}

-----------------------------------------------------------------------------
(* State shared by the actions *)

\* fetch_calls, yielded, writes: per endpoint, the calls of
\* fetch_data_with_pagination, the key values of the URLs the planner yielded
\* and the writes of the store entry; desc_token_calls, url_token_calls: the
\* calls of get_access_token within the current call of the fetcher and within
\* its current loop iteration; exported: to_csv was called
NoHist == [fetch_calls |-> <<0, 0, 0>>, yielded |-> << <<>>, <<>>, <<>> >>,
           writes |-> <<0, 0, 0>>,
           desc_token_calls |-> 0, url_token_calls |-> 0, exported |-> FALSE]

EmptyStore == [k \in StoreKeys |-> 0]

\* dataframes["df_users"], read by build_request_urls
DrivingDf == IF dataframes["df_users"] = 0 THEN EmptyTable ELSE heap[dataframes["df_users"]]

\* a copy that hands back the object itself
CopyAlias(h, slot) == [heap |-> h, slot |-> slot]

\* df.copy(): a new object holding the same table
Copy(h, slot) == [heap |-> Append(h, h[slot]), slot |-> Len(h) + 1]

\* a fetcher that renews the token after every 401, the retry's included
AfterResponseRenewAlways(status, nth) ==
    IF status = 401
    THEN "refresh"
    ELSE IF status # 200 THEN "raise" ELSE "page"

\* a fetcher that reads a failed response as a page
AfterResponseSwallow(status, nth) ==
    IF status = 401 /\ nth = 1 THEN "refresh" ELSE "page"

\* what fetch_data_with_pagination does with a response (lines 174-185): renew
\* the token after a 401 on the first request of the URL, raise on any other
\* status than 200, read the page otherwise
AfterResponse(status, nth) ==
    IF status = 401 /\ nth = 1
    THEN "refresh"
    ELSE IF status # 200 THEN "raise" ELSE "page"

fetchVars == <<url, attempt, last_status, sent_token, fetch_data>>
tokenVars == <<token_seq, headers_token>>
planVars == <<ep, gen_i, all_data>>
frameVars == <<heap, dataframes, final_df, result_df, output_df, op_k>>
configVars == <<operations, column_mappings, astype_str_keeps_na>>

-----------------------------------------------------------------------------
(* main: authentication and the fetch loop *)

\* main, line 286: get_access_token() returns a token, or raises
Authenticate ==
    /\ pc = "start"
    /\ \/ /\ token_seq' = token_seq + 1
          /\ headers_token' = token_seq + 1
          /\ pc' = "plan"
       \/ /\ UNCHANGED tokenVars
          /\ pc' = "failed"
    /\ UNCHANGED <<planVars, fetchVars, frameVars, configVars, hist>>

\* main, lines 300-301: the generator yields a URL and the fetcher is called
YieldUrl ==
    /\ pc = "plan"
    /\ HasNextUrl(ENDPOINT_CONFIGS[ep], DrivingDf, gen_i)
    /\ url' = NextUrl(ENDPOINT_CONFIGS[ep], DrivingDf, gen_i)
    /\ gen_i' = gen_i + 1
    /\ fetch_data' = <<>>
    /\ attempt' = 0
    /\ hist' = [hist EXCEPT !.fetch_calls[ep] = @ + 1,
                            !.yielded[ep] = Append(@, url'.vals),
                            !.desc_token_calls = 0, !.url_token_calls = 0]
    /\ pc' = "request"
    /\ UNCHANGED <<ep, all_data, last_status, sent_token, tokenVars, frameVars, configVars>>

\* the end of one loop iteration of fetch_data_with_pagination after a 200:
\* lines 185-189, and lines 195 and 302 when the page has no nextLink
PageRead(value, more) ==
    IF more
    THEN /\ fetch_data' = fetch_data \o value
         /\ url' = [url EXCEPT !.page = @ + 1]
         /\ pc' = "request"
         /\ UNCHANGED all_data
    ELSE /\ all_data' = all_data \o fetch_data \o value
         /\ fetch_data' = <<>>
         /\ url' = NoUrl
         /\ pc' = "plan"

\* what follows a response, by AfterResponse
Respond(status, value, more) ==
    LET nxt == AfterResponse(status, attempt')
    IN  CASE nxt = "refresh" ->
               /\ pc' = "refresh"
               /\ UNCHANGED <<url, fetch_data, all_data>>
          [] nxt = "raise" ->
               /\ pc' = "failed"
               /\ UNCHANGED <<url, fetch_data, all_data>>
          [] OTHER -> PageRead(value, more)

\* fetch_data_with_pagination, line 171: the first request of a loop
\* iteration, answered by a server that picks the status among `statuses`, the
\* page among `pages` and sends a nextLink for at most `max_pages` pages
RequestFrom(statuses, pages, max_pages) ==
    /\ pc = "request"
    /\ \E status \in statuses, value \in pages, more \in BOOLEAN :
          /\ more => url.page < max_pages
          /\ status # 200 => (value = <<>> /\ ~more)
          /\ attempt' = 1
          /\ last_status' = status
          /\ sent_token' = headers_token
          /\ Respond(status, value, more)
    /\ hist' = [hist EXCEPT !.url_token_calls = 0]
    /\ UNCHANGED <<ep, gen_i, tokenVars, frameVars, configVars>>

Request == RequestFrom(Statuses, Pages(url.endpoint), MaxPages)

\* fetch_data_with_pagination, lines 176-177: get_access_token() returns a
\* token, which replaces the one in headers, or raises
RefreshToken ==
    /\ pc = "refresh"
    /\ hist' = [hist EXCEPT !.desc_token_calls = @ + 1, !.url_token_calls = @ + 1]
    /\ \/ /\ token_seq' = token_seq + 1
          /\ headers_token' = token_seq + 1
          /\ pc' = "retry"
       \/ /\ UNCHANGED tokenVars
          /\ pc' = "failed"
    /\ UNCHANGED <<planVars, fetchVars, frameVars, configVars>>

\* fetch_data_with_pagination, line 178: the request after the renewal
Retry ==
    /\ pc = "retry"
    /\ \E status \in Statuses, value \in Pages(url.endpoint), more \in BOOLEAN :
          /\ more => url.page < MaxPages
          /\ status # 200 => (value = <<>> /\ ~more)
          /\ attempt' = attempt + 1
          /\ last_status' = status
          /\ sent_token' = headers_token
          /\ Respond(status, value, more)
    /\ UNCHANGED <<ep, gen_i, tokenVars, frameVars, configVars, hist>>

\* main, lines 305-310: the generator is exhausted; the endpoint's dataset is
\* built and stored, and the loop moves to the next endpoint
StoreDataset ==
    /\ pc = "plan"
    /\ ~HasNextUrl(ENDPOINT_CONFIGS[ep], DrivingDf, gen_i)
    /\ heap' = Append(heap, MakeDataset(all_data, ENDPOINT_CONFIGS[ep].select))
    /\ dataframes' = [dataframes EXCEPT ![StoreKey(ENDPOINT_CONFIGS[ep].name)] = Len(heap) + 1]
    /\ hist' = [hist EXCEPT !.writes[ep] = @ + 1]
    /\ all_data' = <<>>
    /\ gen_i' = 0
    /\ IF ep < Len(ENDPOINT_CONFIGS)
       THEN ep' = ep + 1 /\ pc' = "plan"
       ELSE ep' = ep /\ pc' = "transform"
    /\ UNCHANGED <<fetchVars, tokenVars, final_df, result_df, output_df, op_k, configVars>>

-----------------------------------------------------------------------------
(* main: transformation, formatting and export *)

\* main, line 314: final_df = dataframes["df_users"].copy()
CopyDriving ==
    /\ pc = "transform"
    /\ LET c == Copy(heap, dataframes["df_users"])
       IN  heap' = c.heap /\ final_df' = c.slot
    /\ pc' = "apply"
    /\ UNCHANGED <<planVars, fetchVars, tokenVars, dataframes, result_df, output_df,
                   op_k, configVars, hist>>

\* apply_transformations, line 250: result_df = df.copy()
BeginTransformations ==
    /\ pc = "apply"
    /\ LET c == Copy(heap, final_df)
       IN  heap' = c.heap /\ result_df' = c.slot
    /\ op_k' = 0
    /\ pc' = "ops"
    /\ UNCHANGED <<planVars, fetchVars, tokenVars, dataframes, final_df, output_df,
                   configVars, hist>>

\* the operation the loop of apply_transformations is about to read
CurrentOp == operations[op_k + 1]

\* lines 255-257: rename returns a new DataFrame
ApplyRename ==
    /\ pc = "ops" /\ op_k < Len(operations)
    /\ CurrentOp[1] = "RENAME"
    /\ heap' = Append(heap, Rename(heap[result_df], CurrentOp[2], CurrentOp[3]))
    /\ result_df' = Len(heap) + 1
    /\ op_k' = op_k + 1
    /\ pc' = "ops"
    /\ UNCHANGED <<planVars, fetchVars, tokenVars, dataframes, final_df, output_df,
                   configVars, hist>>

\* lines 259-261: safe_cast_column assigns the column of result_df in place
ApplyCast ==
    /\ pc = "ops" /\ op_k < Len(operations)
    /\ CurrentOp[1] = "CAST"
    /\ IF CastRaises(heap[result_df], CurrentOp[2], CurrentOp[3])
       THEN pc' = "failed" /\ UNCHANGED <<heap, op_k>>
       ELSE /\ heap' = [heap EXCEPT ![result_df] =
                          SafeCastColumn(heap[result_df], CurrentOp[2], CurrentOp[3])]
            /\ op_k' = op_k + 1
            /\ pc' = "ops"
    /\ UNCHANGED <<planVars, fetchVars, tokenVars, dataframes, final_df, result_df,
                   output_df, configVars, hist>>

\* lines 263-266: the stored dataset is copied, safe_merge cleans both key
\* columns in place (result_df's and the copy's) and merge returns a new
\* DataFrame; a dataset the store lacks and a bad key raise
ApplyJoin ==
    /\ pc = "ops" /\ op_k < Len(operations)
    /\ CurrentOp[1] = "JOIN"
    /\ IF CurrentOp[2] \notin StoreKeys \/ dataframes[CurrentOp[2]] = 0
       THEN pc' = "failed" /\ UNCHANGED <<heap, result_df, op_k>>
       ELSE LET c == Copy(heap, dataframes[CurrentOp[2]])
                left == CleanJoinKey(c.heap[result_df], CurrentOp[3])
                right == CleanJoinKey(c.heap[c.slot], CurrentOp[4])
                cleaned == [c.heap EXCEPT ![result_df] = left, ![c.slot] = right]
            IN  IF MergeRaises(left, right, CurrentOp[3], CurrentOp[4])
                THEN /\ heap' = cleaned
                     /\ pc' = "failed"
                     /\ UNCHANGED <<result_df, op_k>>
                ELSE /\ heap' = Append(cleaned, Merge(left, right, CurrentOp[3], CurrentOp[4]))
                     /\ result_df' = Len(cleaned) + 1
                     /\ op_k' = op_k + 1
                     /\ pc' = "ops"
    /\ UNCHANGED <<planVars, fetchVars, tokenVars, dataframes, final_df, output_df,
                   configVars, hist>>

\* lines 252-266: no branch of the if / elif chain takes any other tag, and
\* the loop goes on to the next operation
ApplyOther ==
    /\ pc = "ops" /\ op_k < Len(operations)
    /\ CurrentOp[1] \notin {"RENAME", "CAST", "JOIN"}
    /\ op_k' = op_k + 1
    /\ pc' = "ops"
    /\ UNCHANGED <<planVars, fetchVars, tokenVars, heap, dataframes, final_df, result_df,
                   output_df, configVars, hist>>

\* line 268 and main, line 315: final_df = apply_transformations(...)
ReturnResult ==
    /\ pc = "ops" /\ op_k = Len(operations)
    /\ final_df' = result_df
    /\ pc' = "format"
    /\ UNCHANGED <<planVars, fetchVars, tokenVars, heap, dataframes, result_df, output_df,
                   op_k, configVars, hist>>

\* main, line 318: output_df = format_output_columns(final_df, COLUMN_MAPPINGS)
FormatOutput ==
    /\ pc = "format"
    /\ IF FormatRaises(heap[final_df], column_mappings)
       THEN pc' = "failed" /\ UNCHANGED <<heap, output_df>>
       ELSE /\ heap' = Append(heap, FormatOutputColumns(heap[final_df], column_mappings))
            /\ output_df' = Len(heap) + 1
            /\ pc' = "post"
    /\ UNCHANGED <<planVars, fetchVars, tokenVars, dataframes, final_df, result_df, op_k,
                   configVars, hist>>

\* strftime("%Y-%m-%d %H:%M") of the UTC timestamps of the model
DateOut == ("2024-01-05T10:30:00Z" :> "2024-01-05 10:30")

\* lines 324-328, per value: what does not parse becomes NaT, then NaN
FormatDate(v) ==
    IF v.kind = "str" /\ v.text \in DOMAIN DateOut THEN S(DateOut[v.text]) ELSE NaN

StatusLabels == ("0" :> "Pending") @@ ("1" :> "Completed") @@ ("2" :> "Cancelled")

\* lines 332-342, per value: Series.map gives NaN for a key the dict lacks
MapStatus(v) ==
    IF v.text \in DOMAIN StatusLabels THEN S(StatusLabels[v.text]) ELSE NaN

\* lines 321-342: both passes assign columns of output_df in place
PostProcess(t) ==
    LET dated == IF HasCol(t, "Purchase Date")
                 THEN SetColumn(t, "Purchase Date",
                        [r \in 1..Len(t.rows) |-> FormatDate(Column(t, "Purchase Date")[r])])
                 ELSE t
    IN  IF HasCol(dated, "Order Status")
        THEN SetColumn(dated, "Order Status",
               [r \in 1..Len(dated.rows) |-> MapStatus(Column(dated, "Order Status")[r])])
        ELSE dated

\* main, lines 320-347: post-processing of output_df and the CSV export
Export ==
    /\ pc = "post"
    /\ heap' = [heap EXCEPT ![output_df] = PostProcess(heap[output_df])]
    /\ hist' = [hist EXCEPT !.exported = TRUE]
    /\ pc' = "done"
    /\ UNCHANGED <<planVars, fetchVars, tokenVars, dataframes, final_df, result_df,
                   output_df, op_k, configVars>>

-----------------------------------------------------------------------------
(* The pipeline: one run of main *)

Init ==
    /\ pc = "start"
    /\ ep = 1 /\ gen_i = 0 /\ all_data = <<>>
    /\ url = NoUrl /\ attempt = 0 /\ last_status = 0 /\ sent_token = 0
    /\ fetch_data = <<>>
    /\ token_seq = 0 /\ headers_token = 0
    /\ heap = <<>> /\ dataframes = EmptyStore
    /\ final_df = 0 /\ result_df = 0 /\ output_df = 0 /\ op_k = 0
    /\ operations = JOIN_OPERATIONS
    /\ column_mappings = COLUMN_MAPPINGS
    /\ astype_str_keeps_na \in BOOLEAN
    /\ hist = NoHist

Next ==
    \/ Authenticate \/ YieldUrl \/ Request \/ RefreshToken \/ Retry \/ StoreDataset
    \/ CopyDriving \/ BeginTransformations \/ ApplyRename \/ ApplyCast \/ ApplyJoin
    \/ ReturnResult \/ FormatOutput \/ Export

Spec == Init /\ [][Next]_vars

-----------------------------------------------------------------------------
(* The planner on larger driving datasets: runs of main that start where the
   users dataset has just been stored, against a server that answers every
   request with an empty last page *)

\* the ints 1..n
Ids(n) == [k \in 1..n |-> I(IntText[k])]

InsertAt(seq, p, v) == SubSeq(seq, 1, p) \o <<v>> \o SubSeq(seq, p + 1, Len(seq))

\* the values of the driving field, record by record: up to MaxIds distinct
\* ids, alone or with one more value among them: a null, a repeat of the first
\* id, or the first id as a string
DrivingValues ==
    {Ids(n) : n \in 0..MaxIds}
    \cup UNION {{InsertAt(Ids(n), p, v) : p \in 0..n, v \in {None, I("1"), S("1")}} :
                   n \in 0..MaxIds}

UserRecords(vals) == [k \in 1..Len(vals) |-> << <<"id", vals[k]>> >>]

InitPlan ==
    /\ pc = "plan"
    /\ ep = 2 /\ gen_i = 0 /\ all_data = <<>>
    /\ url = NoUrl /\ attempt = 1 /\ last_status = 200 /\ sent_token = 1
    /\ fetch_data = <<>>
    /\ token_seq = 1 /\ headers_token = 1
    /\ \E vals \in DrivingValues :
          heap = << MakeDataset(UserRecords(vals), ENDPOINT_CONFIGS[1].select) >>
    /\ dataframes = [EmptyStore EXCEPT !["df_users"] = 1]
    /\ final_df = 0 /\ result_df = 0 /\ output_df = 0 /\ op_k = 0
    /\ operations = JOIN_OPERATIONS
    /\ column_mappings = COLUMN_MAPPINGS
    /\ astype_str_keeps_na \in BOOLEAN
    /\ hist = [NoHist EXCEPT !.fetch_calls[1] = 1, !.yielded[1] = << <<>> >>,
                             !.writes[1] = 1]

\* line 171, answered 200 with an empty page and no nextLink
RequestLastPage == RequestFrom({200}, {<<>>}, 1)

NextPlan == YieldUrl \/ RequestLastPage \/ StoreDataset

SpecPlan == InitPlan /\ [][NextPlan]_vars

-----------------------------------------------------------------------------
(* The transformation engine and the formatter on given inputs: calls of
   apply_transformations(df, operations, dataframes) followed by
   format_output_columns, with df in slot 1 and the dataset "df_orders" of the
   store in slot 2 *)

\* tags of the rows of the left and of the right table of a join
LeftTag == <<"L1", "L2", "L3", "L4", "L5">>
RightTag == <<"R1", "R2", "R3", "R4", "R5">>

\* a table of n rows under the labels cs, every cell a different int
Grid(cs, n) ==
    [cols |-> cs,
     rows |-> [r \in 1..n |-> [i \in 1..Len(cs) |-> I(IntText[3 * (r - 1) + i])]]]

\* a table of two columns: the values vals under the label c, as pandas holds
\* them, and the tags of the rows under "row"
Tagged(c, vals, tags) ==
    [cols |-> <<c, "row">>,
     rows |-> [r \in 1..Len(vals) |-> <<InferColumn(vals)[r], S(tags[r])>>]]

RECURSIVE SeqsUpTo(_, _)
SeqsUpTo(set, n) ==
    IF n = 0
    THEN {<<>>}
    ELSE LET shorter == SeqsUpTo(set, n - 1)
         IN  shorter \cup {Append(q, x) : q \in shorter, x \in set}

\* the state at the call of apply_transformations
InitCall(df, right_df, ops, mappings) ==
    /\ pc = "apply"
    /\ ep = Len(ENDPOINT_CONFIGS) /\ gen_i = 0 /\ all_data = <<>>
    /\ url = NoUrl /\ attempt = 1 /\ last_status = 200 /\ sent_token = 1
    /\ fetch_data = <<>>
    /\ token_seq = 1 /\ headers_token = 1
    /\ heap = <<df, right_df>>
    /\ dataframes = [EmptyStore EXCEPT !["df_orders"] = 2]
    /\ final_df = 1 /\ result_df = 0 /\ output_df = 0 /\ op_k = 0
    /\ operations = ops
    /\ column_mappings = mappings
    /\ astype_str_keeps_na \in BOOLEAN
    /\ hist = NoHist

SomeRight == Tagged("a", <<S("1"), S("1")>>, RightTag)

\* Rename(x, y) then Rename(y, x), on tables that hold x, y, both or neither
InitRename ==
    \E cs \in {<<"a">>, <<"b">>, <<"c">>, <<"a", "b">>, <<"b", "a">>, <<"a", "c">>,
               <<"a", "b", "c">>},
       n \in 0..MaxRows, x \in {"a", "b", "d"}, y \in {"a", "b", "d"} :
        InitCall(Grid(cs, n), SomeRight,
                 << <<"RENAME", x, y>>, <<"RENAME", y, x>> >>, COLUMN_MAPPINGS)

\* the values a column to cast may hold
CastCells == {None, NaN, S("7"), S("abc"), I("7"), S("7.5"), S("inf")}

\* one Cast, of a column the table holds ("a") or lacks ("z")
InitCast ==
    \E vals \in SeqsUpTo(CastCells, MaxRows), column \in {"a", "z"},
       dtype \in {"string", "int64", "float64"} :
        InitCall(Tagged("a", vals, LeftTag), SomeRight,
                 << <<"CAST", column, dtype>> >>, COLUMN_MAPPINGS)

\* the values a join key may hold
KeyCells == {I("1"), S("1"), None, S("nan")}

\* one Join, on keys of the same label or of different labels
InitJoin ==
    \E lvals \in SeqsUpTo(KeyCells, MaxKeys), rvals \in SeqsUpTo(KeyCells, MaxKeys),
       right_key \in {"a", "b"} :
        InitCall(Tagged("a", lvals, LeftTag), Tagged(right_key, rvals, RightTag),
                 << <<"JOIN", "df_orders", "a", right_key>> >>, COLUMN_MAPPINGS)

\* operation tuples, two of them with a tag apply_transformations has no
\* branch for
SomeOps == { <<"RENAME", "a", "b">>, <<"CAST", "a", "int64">>,
             <<"JOIN", "df_orders", "a", "a">>, <<"DROP", "a">>,
             <<"rename", "a", "b">> }

\* operation lists of any tags
InitOps ==
    \E ops \in SeqsUpTo(SomeOps, MaxOps), n \in {0, 2} :
        InitCall(Tagged("a", SubSeq(<<S("1"), None>>, 1, n), LeftTag), SomeRight,
                 ops, COLUMN_MAPPINGS)

Mappings == { <<>>, << <<"x", "X">> >>, << <<"y", "Y">> >>,
              << <<"x", "X">>, <<"y", "Y">> >>, << <<"y", "Y">>, <<"x", "X">> >>,
              << <<"w", "W">> >>, << <<"x", "X">>, <<"w", "W">> >>,
              << <<"w", "W">>, <<"y", "Y">> >>, << <<"w", "W">>, <<"v", "V">> >> }

\* no operation: the formatter alone, on mappings whose sources the table
\* holds all, in part, or not at all
InitFormat ==
    \E cs \in {<<"x">>, <<"x", "y">>, <<"y", "x">>, <<"z">>, <<"x", "y", "z">>},
       n \in 0..MaxRows, mappings \in Mappings :
        InitCall(Grid(cs, n), SomeRight, <<>>, mappings)

InitTransform == InitRename \/ InitCast \/ InitJoin \/ InitOps \/ InitFormat

NextTransform ==
    \/ BeginTransformations \/ ApplyRename \/ ApplyCast \/ ApplyJoin \/ ApplyOther
    \/ ReturnResult \/ FormatOutput \/ Export

SpecTransform == InitTransform /\ [][NextTransform]_vars

-----------------------------------------------------------------------------
(* Properties of the fetcher and of the store, checked under Spec *)

C2_OneRetryPerUrl ==
    /\ attempt <= 2
    /\ hist.url_token_calls <= 1
    /\ (pc = "refresh" => attempt = 1 /\ last_status = 401 /\ hist.url_token_calls = 0)
    /\ (pc = "retry" =>
          /\ attempt = 1 /\ last_status = 401
          /\ hist.url_token_calls = 1
          /\ headers_token = token_seq /\ headers_token # sent_token)
    /\ (attempt = 1 /\ last_status = 401 => pc \in {"refresh", "retry", "failed"})
    /\ (attempt = 1 /\ last_status = 401 /\ pc = "failed" =>
          hist.url_token_calls = 1 /\ headers_token = sent_token)
    /\ (attempt = 2 =>
          /\ hist.url_token_calls = 1
          /\ sent_token = token_seq /\ sent_token = headers_token)
    /\ (attempt = 2 /\ last_status # 200 => pc = "failed")

\* the retry was sent with the new token and answered 401: the fetch raised
C2_Witness ==
    /\ attempt = 2 /\ last_status = 401
    /\ pc = "failed"
    /\ hist.url_token_calls = 1
    /\ sent_token = token_seq

\* the last response was fatal: not a 200, and not the 401 of a first request
FatalResponse ==
    /\ attempt >= 1
    /\ last_status # 200
    /\ ~(last_status = 401 /\ attempt = 1)

\* C3: a fatal response ends the run: the exception leaves main, the endpoint
\* being fetched and every later one have no entry in the store, nothing was
\* exported, the response caused no call of get_access_token, and no step
\* (no retry, no request, no write) follows it.
C3_NoPartialSuccess ==
    /\ [](FatalResponse =>
            /\ pc = "failed"
            /\ \A e \in ep..Len(ENDPOINT_CONFIGS) :
                  /\ dataframes[StoreKey(ENDPOINT_CONFIGS[e].name)] = 0
                  /\ hist.writes[e] = 0
            /\ \A e \in (ep + 1)..Len(ENDPOINT_CONFIGS) : hist.fetch_calls[e] = 0
            /\ hist.fetch_calls[ep] = gen_i
            /\ ~hist.exported /\ output_df = 0
            /\ hist.url_token_calls = attempt - 1)
    /\ [][~FatalResponse]_vars

\* a 500 on the second page of the orders descriptor, with records of its
\* first page read and the users dataset stored
C3_Witness ==
    /\ pc = "failed" /\ FatalResponse
    /\ last_status = 500
    /\ ep = 2 /\ url.page = 2 /\ fetch_data # <<>>
    /\ dataframes["df_users"] # 0

\* the generator of the endpoint is exhausted and every URL it yielded was
\* fetched to its last page
EndpointFetched ==
    /\ pc = "plan" /\ url = NoUrl
    /\ ~HasNextUrl(ENDPOINT_CONFIGS[ep], DrivingDf, gen_i)
    /\ hist.fetch_calls[ep] = gen_i

\* C10: each endpoint's store entry is written at most once in a run and once
\* in every run that reaches the export, only when all the endpoint's
\* descriptors were fetched to their last page; a written entry keeps its
\* object, and that object keeps its columns, rows and values through every
\* later step (planning, rename, cast, join, formatting, post-processing).
C10_StoreWriteOnce ==
    /\ [](\A e \in 1..Len(ENDPOINT_CONFIGS) :
            /\ hist.writes[e] <= 1
            /\ (hist.writes[e] = 1 <=> dataframes[StoreKey(ENDPOINT_CONFIGS[e].name)] # 0)
            /\ (pc \in {"transform", "apply", "ops", "format", "post", "done"}
                  => hist.writes[e] = 1))
    /\ [][\A k \in StoreKeys :
            /\ dataframes[k] # 0 =>
                  /\ dataframes'[k] = dataframes[k]
                  /\ heap'[dataframes[k]] = heap[dataframes[k]]
            /\ dataframes'[k] # dataframes[k] =>
                  /\ EndpointFetched
                  /\ k = StoreKey(ENDPOINT_CONFIGS[ep].name)]_vars

\* the run is over, the join has normalized the keys of non-empty copies of
\* the users and orders datasets, and the stored orders keys are still ints
C10_Witness ==
    /\ pc = "done"
    /\ heap[dataframes["df_users"]].rows # <<>>
    /\ heap[dataframes["df_orders"]].rows # <<>>
    /\ Column(heap[dataframes["df_orders"]], "user_id")[1].kind = "int"
    /\ Column(heap[result_df], "user_id")[1].kind = "str"

-----------------------------------------------------------------------------
(* Property of the planner, checked under SpecPlan *)

\* the endpoint planned from the driving dataset
KeyedEp == CHOOSE e \in 1..Len(ENDPOINT_CONFIGS) : ENDPOINT_CONFIGS[e].key_filter # ""

\* the concatenation of a sequence of sequences
RECURSIVE Flatten(_)
Flatten(seqs) == IF seqs = <<>> THEN <<>> ELSE Head(seqs) \o Flatten(Tail(seqs))

\* C4: for the keyed endpoint and a driving column of N distinct strings, the
\* planner yields ceil(N / ChunkSize) URLs, every one but the last with
\* ChunkSize values; each distinct value is in exactly one URL, once; the
\* values follow their first-seen order; the fetcher is called once per URL,
\* and with N = 0 there is no URL and no call.
C4_ChunkedPlan ==
    LET chunks == hist.yielded[KeyedEp]
        emitted == Flatten(chunks)
        col == Column(heap[dataframes["df_users"]],
                      ENDPOINT_CONFIGS[KeyedEp].driving_view_col_name)
        \* the rows of the driving column that hold a value
        valued == {r \in 1..Len(col) : ~IsNull(col[r])}
        \* the distinct strings the non-null driving values deduplicate to
        strs == {col[r].text : r \in valued}
        N == Cardinality(strs)
        \* the row where each string is first seen
        first == [t \in strs |->
                    CHOOSE r \in valued :
                        col[r].text = t /\ \A q \in valued : col[q].text = t => r <= q]
    IN  /\ hist.fetch_calls[KeyedEp] = Len(chunks)
        /\ \A c \in 1..Len(chunks) :
              /\ Len(chunks[c]) >= 1 /\ Len(chunks[c]) <= ChunkSize
              /\ c < Len(chunks) => Len(chunks[c]) = ChunkSize
        /\ \A k \in 1..Len(emitted) : emitted[k] \in strs
        /\ \A k \in 1..(Len(emitted) - 1) : first[emitted[k]] < first[emitted[k + 1]]
        /\ hist.writes[KeyedEp] = 1 =>
              /\ Len(chunks) = (N + ChunkSize - 1) \div ChunkSize
              /\ Len(emitted) = N
        /\ N = 0 => chunks = <<>> /\ hist.fetch_calls[KeyedEp] = 0

\* the planning of the keyed endpoint is over: three URLs were yielded, the
\* last with one value, from a driving column that holds a null or a repeat
C4_Witness ==
    /\ hist.writes[KeyedEp] = 1
    /\ Len(hist.yielded[KeyedEp]) = 3
    /\ Len(hist.yielded[KeyedEp][3]) = 1
    /\ Len(heap[dataframes["df_users"]].rows) > Len(Flatten(hist.yielded[KeyedEp]))

-----------------------------------------------------------------------------
(* Properties of the transformation engine and of the formatter, checked
   under SpecTransform *)

\* the table apply_transformations was called on
InputDf == heap[1]
\* the table the store holds under "df_orders"
StoredRight == heap[dataframes["df_orders"]]
\* apply_transformations has returned
Returned == pc \in {"format", "post", "done"}

KnownTags == {"RENAME", "CAST", "JOIN"}

\* C5, as stated: an operation whose tag is not one of Rename / Cast / Join
\* makes the run fail on the spot: the engine never goes past such an
\* operation and never returns a table for a list that holds one.
C5_UnknownTagFailsFast ==
    \A i \in 1..Len(operations) :
        operations[i][1] \notin KnownTags => (op_k < i /\ ~Returned)

\* the operation list is Rename(a, b) followed by Rename(b, a)
IsRoundTrip ==
    /\ Len(operations) = 2
    /\ operations[1][1] = "RENAME" /\ operations[2][1] = "RENAME"
    /\ operations[2][2] = operations[1][3] /\ operations[2][3] = operations[1][2]

\* C6, as stated: Rename(a, b) then Rename(b, a) raises no error and returns
\* a table equal to the original, whatever columns the table has (a absent
\* and b already a column included).
C6_RenameRoundTrip ==
    IsRoundTrip =>
        /\ pc # "failed"
        /\ pc = "format" => heap[final_df] = InputDf

\* C6, amended: Rename(a, b) then Rename(b, a) raises no error and returns a
\* table equal to the original when b is not yet a column of the table (or
\* a = b), a absent from the table included.
C6_RenameRoundTripFreshTarget ==
    (IsRoundTrip /\ (~HasCol(InputDf, operations[1][3])
                     \/ operations[1][2] = operations[1][3])) =>
        /\ pc # "failed"
        /\ pc = "format" => heap[final_df] = InputDf

\* a round trip of a column the table holds to a new label has returned, and
\* one of a column the table lacks
C6_Witness ==
    /\ IsRoundTrip /\ pc = "format"
    /\ operations[1][2] # operations[1][3]
    /\ ~HasCol(InputDf, operations[1][3])
    /\ Len(InputDf.cols) = 3 /\ Len(InputDf.rows) = MaxRows
    /\ HasCol(InputDf, operations[1][2])
    /\ heap[final_df] = InputDf
    /\ \E s \in 1..Len(heap) : HasCol(heap[s], operations[1][3])
\* the operation list is one Cast to a dtype the spec names
IsCast ==
    /\ Len(operations) = 1 /\ operations[1][1] = "CAST"
    /\ operations[1][3] \in {"string", "int64", "float64"}

\* the claim's notion of a convertible value: a number or the text of one
Convertible(v) ==
    \/ v.kind \in {"int", "float"}
    \/ v.kind = "str" /\ v.text \in (DOMAIN FloatOfInt \cup DOMAIN IntOfFloat \cup {"inf"})

\* the number a cell stands for, as the text of a float
NumberOf(v) == IF v.text \in DOMAIN FloatOfInt THEN FloatOfInt[v.text] ELSE v.text

\* the int a cell is cast to: the number without its fraction, -1 when the
\* cell is no finite number
IntOf(v) ==
    IF ~Convertible(v) \/ v.text = "inf" THEN "-1"
    ELSE IF v.text \in DOMAIN IntOfFloat THEN IntOfFloat[v.text] ELSE v.text

\* the result of the cast keeps labels, rows and every other column
CastKeepsFrame(in, out, column) ==
    /\ out.cols = in.cols /\ Len(out.rows) = Len(in.rows)
    /\ \A r \in 1..Len(in.rows), i \in 1..Len(in.cols) :
          in.cols[i] # column => out.rows[r][i] = in.rows[r][i]

\* C7, the part on failures: a Cast never fails.
C7_CastNeverFails == IsCast => pc # "failed"

\* C7, the part on absent columns: the cast of a column the table lacks
\* returns the table unchanged.
C7_AbsentColumn ==
    (IsCast /\ pc = "format" /\ ~HasCol(InputDf, operations[1][2])) =>
        heap[final_df] = InputDf

\* C7, the part on string: every non-null value becomes its text and every
\* null value the empty string.
C7_StringCast ==
    (IsCast /\ pc = "format" /\ operations[1][3] = "string"
            /\ HasCol(InputDf, operations[1][2])) =>
        LET column == operations[1][2]
            in == InputDf
            out == heap[final_df]
        IN  /\ CastKeepsFrame(in, out, column)
            /\ \A r \in 1..Len(in.rows) :
                  Column(out, column)[r] =
                     IF IsNull(Column(in, column)[r]) THEN S("")
                     ELSE S(Column(in, column)[r].text)

\* C7, the part on int64: every convertible value becomes its int and every
\* null or unconvertible value -1.
C7_Int64Cast ==
    (IsCast /\ pc = "format" /\ operations[1][3] = "int64"
            /\ HasCol(InputDf, operations[1][2])) =>
        LET column == operations[1][2]
            in == InputDf
            out == heap[final_df]
        IN  /\ CastKeepsFrame(in, out, column)
            /\ \A r \in 1..Len(in.rows) :
                  Column(out, column)[r] = I(IntOf(Column(in, column)[r]))

\* C7, the part on float64: every convertible value becomes its number and
\* every null or unconvertible value 0.0.
C7_Float64Cast ==
    (IsCast /\ pc = "format" /\ operations[1][3] = "float64"
            /\ HasCol(InputDf, operations[1][2])) =>
        LET column == operations[1][2]
            in == InputDf
            out == heap[final_df]
        IN  /\ CastKeepsFrame(in, out, column)
            /\ \A r \in 1..Len(in.rows) :
                  /\ Column(out, column)[r].kind \in {"int", "float"}
                  /\ NumberOf(Column(out, column)[r]) =
                        IF Convertible(Column(in, column)[r])
                        THEN NumberOf(Column(in, column)[r])
                        ELSE "0.0"

\* C7, as stated: Cast(col, dtype) never fails; a column the table lacks
\* leaves the table unchanged; otherwise every convertible value is converted
\* and every null or unconvertible value becomes the fallback of the dtype:
\* "" for string, -1 for int64, 0.0 for float64.
C7_CastFallbacks ==
    /\ C7_CastNeverFails /\ C7_AbsentColumn
    /\ C7_StringCast /\ C7_Int64Cast /\ C7_Float64Cast

\* C8, as stated: format_output_columns raises no error and returns a table
\* with as many rows as its input, in the same order, whose columns are the
\* mapped columns the input holds, in the order of the mapping list, also
\* when the input holds none of them.
C8_FormatKeepsRows ==
    /\ operations = <<>> => pc # "failed"
    /\ pc = "post" =>
          LET in == heap[final_df]
              out == heap[output_df]
              kept == SelectSeq(column_mappings, LAMBDA m : HasCol(in, m[1]))
          IN  /\ Len(out.rows) = Len(in.rows)
              /\ out.cols = [n \in 1..Len(kept) |-> kept[n][2]]
              /\ \A r \in 1..Len(in.rows) :
                    r <= Len(out.rows) =>
                       out.rows[r] = [n \in 1..Len(kept) |-> Column(in, kept[n][1])[r]]
\* the operation list is one Join of two tables whose rows carry their tags
IsJoin ==
    /\ Len(operations) = 1 /\ operations[1][1] = "JOIN"
    /\ HasCol(InputDf, "row") /\ HasCol(StoredRight, "row")

\* the normalised text of a key, in the words of the claim: "" for a null and
\* for one of the null markers, the text of the value otherwise
NormalKey(v) ==
    IF IsNull(v) \/ v.text \in {"nan", "<NA>", "None"} THEN "" ELSE v.text

\* C9: Join(table, left_key, right_key) is a left outer join on normalised
\* keys. The result lists the left rows in their order, each one once per
\* right row whose normalised key equals its own, those in the order of the
\* right table, and once with null right-hand columns when there is none; a
\* left row whose key is null or a null marker matches exactly the right rows
\* whose keys normalise to the empty string; the stored right table is left
\* as it was.
C9_LeftOuterJoin ==
    (IsJoin /\ pc = "format") =>
        LET left_key == operations[1][3]
            right_key == operations[1][4]
            lkeys == Column(InputDf, left_key)
            rkeys == Column(StoredRight, right_key)
            out == heap[final_df]
            tag_x == Column(out, "row_x")
            tag_y == Column(out, "row_y")
            okeys == Column(out, left_key)
            \* position of the left / right row a result row was built from
            lrow(q) == CHOOSE i \in 1..Len(lkeys) : S(LeftTag[i]) = tag_x[q]
            rrow(q) == IF IsNull(tag_y[q]) THEN 0
                       ELSE CHOOSE j \in 1..Len(rkeys) : S(RightTag[j]) = tag_y[q]
            matches(i) == {j \in 1..Len(rkeys) : NormalKey(rkeys[j]) = NormalKey(lkeys[i])}
            of(i) == {q \in 1..Len(out.rows) : lrow(q) = i}
        IN  /\ \A q \in 1..Len(out.rows) :
                  /\ \E i \in 1..Len(lkeys) : S(LeftTag[i]) = tag_x[q]
                  /\ okeys[q] = S(NormalKey(lkeys[lrow(q)]))
                  /\ rrow(q) # 0 => rrow(q) \in matches(lrow(q))
                  /\ rrow(q) = 0 =>
                        /\ matches(lrow(q)) = {}
                        /\ right_key # left_key => IsNull(Column(out, right_key)[q])
            /\ \A i \in 1..Len(lkeys) :
                  /\ {rrow(q) : q \in of(i)} = IF matches(i) = {} THEN {0} ELSE matches(i)
                  /\ Cardinality(of(i)) = IF matches(i) = {} THEN 1
                                          ELSE Cardinality(matches(i))
            /\ \A q1, q2 \in 1..Len(out.rows) :
                  q1 < q2 =>
                     \/ lrow(q1) < lrow(q2)
                     \/ lrow(q1) = lrow(q2) /\ rrow(q1) < rrow(q2)
            /\ StoredRight = Tagged(right_key, rkeys, RightTag)

\* a join has returned where a left row with a null key met two right rows,
\* one of them keyed by a null marker, and another left row met none
C9_Witness ==
    /\ IsJoin /\ pc = "format"
    /\ Len(InputDf.rows) = 2 /\ Len(heap[final_df].rows) = 3
    /\ IsNull(Column(InputDf, "a")[1])
    /\ \E j \in 1..Len(StoredRight.rows) :
          StoredRight.rows[j][1] = S("nan")
    /\ Column(heap[final_df], "row_y") = <<S("R1"), S("R2"), NaN>>
====
